---- MODULE Spec2Model ----
(***************************************************************************)
(* The DependencyGraph component of git-visually: the metrics computed     *)
(* over (nodes, edges), the force simulation driven by animation frames,   *)
(* the pointer hit test and the canvas resize handler.                     *)
(*                                                                         *)
(* Numbers.  Positions, velocities and forces are JavaScript doubles in    *)
(* the source.  Here they are fixed-point integers, SCALE units to one     *)
(* pixel, and every division truncates toward zero.  Number.toFixed(d) is  *)
(* modelled as the integer count of 10^-d units it prints (round half up). *)
(***************************************************************************)
EXTENDS Integers, Sequences, FiniteSets, TLC

VARIABLES
  nodesGiven,     \* FALSE: props.nodes is undefined
  nodes,          \* props.nodes, a sequence of node records
  edges,          \* props.edges, a sequence of edge records
  metrics,        \* the value of the metrics useMemo
  display,        \* what the component returns: "unrendered" | "empty" | "graph"
  mounted,        \* the component is mounted
  canvas,         \* the <canvas> element behind canvasRef
  container,      \* client size of the element behind containerRef
  positions,      \* positionsRef.current : id -> [x, y]
  velocities,     \* velocitiesRef.current: id -> [vx, vy]
  hoveredNodeId,  \* useState hoveredNodeId
  tooltip,        \* useState tooltip
  raf,            \* the animation-frame callbacks that are scheduled
  animationId,    \* animationId of the effect whose cleanup is registered
  threw,          \* an exception was raised by the component's code
  lastStep,       \* the operation that produced this state
  events,         \* number of external events handled so far
  pointer,        \* mouseX / mouseY of the mousemove event this state comes from
  view,           \* AnalysisView: the analysis context and the form state
  frame,          \* what the last simulate() call drew on the canvas
  legend          \* a legend item: a language and the colour looked up for it

vars == <<nodesGiven, nodes, edges, metrics, display, mounted, canvas, container,
          positions, velocities, hoveredNodeId, tooltip, raf, animationId,
          threw, lastStep, events, pointer, view, frame, legend>>

(***************************************************************************)
(* Bounds of the model                                                     *)
(***************************************************************************)
MaxNodes == 3        \* longest node list of the metrics inputs
MaxEdges == 2        \* longest edge list of the metrics inputs
MaxRankEdges == 2    \* longest edge list of the inputs with distinct ids
MaxEvents == 2       \* external events (props, pointer, resize, unmount) per run
SCALE == 100         \* fixed-point units per pixel

Ids == {"a", "b"}               \* node ids of the inputs with repeated ids
UnknownId == "x"                \* an id no node list holds
RankIds == <<"n1", "n2", "n3", "n4", "n5", "n6">>   \* distinct node ids, in input order
NULL == "null"                  \* JavaScript null / undefined

(***************************************************************************)
(* Generic helpers                                                         *)
(***************************************************************************)
Min(a, b) == IF a <= b THEN a ELSE b
Max(a, b) == IF a >= b THEN a ELSE b
Abs(a) == IF a >= 0 THEN a ELSE -a

\* the element of a one-element set; {e(v) : v \in {d}} names d once as v
The(S) == CHOOSE x \in S : TRUE

\* number division that truncates toward zero
TDiv(a, b) == IF a >= 0 THEN a \div b ELSE -((-a) \div b)

\* Map.prototype.get with the `|| dflt` of the source, and Map.prototype.set
MapGet(m, k, dflt) == IF k \in DOMAIN m THEN m[k] ELSE dflt
MapSet(m, k, v) == [x \in (DOMAIN m) \cup {k} |-> IF x = k THEN v ELSE m[x]]
EmptyMap == [x \in {} |-> 0]

\* node records: the label stands for the descriptive fields of the record
MkNodes(ids) == [i \in 1..Len(ids) |-> [id |-> ids[i], label |-> i]]
MkEdge(s, t) == [source |-> s, target |-> t]

\* the guard without its length test
NoNodesStrict(given, ns) == ~given

\* `!props.nodes || props.nodes.length === 0`
NoNodes(given, ns) == (~given) \/ Len(ns) = 0

(***************************************************************************)
(* Metrics (useMemo)                                                       *)
(***************************************************************************)
\* props.nodes.forEach(n => { inDegree.set(n.id, 0) ... adjList.set(n.id, []) })
InitMaps(ns) ==
  LET ids == {ns[i].id : i \in 1..Len(ns)}
  IN [in |-> [x \in ids |-> 0], out |-> [x \in ids |-> 0], adj |-> [x \in ids |-> <<>>]]

\* one iteration of props.edges.forEach
\* adjList.get(k)?.push(v)
PushIfPresent(adj, k, v) ==
  IF k \in DOMAIN adj THEN [adj EXCEPT ![k] = Append(@, v)] ELSE adj

\* the edge pass with the adjacency list filled in one direction only
EdgeStepDirected(m, e) ==
  [in |-> MapSet(m.in, e.target, MapGet(m.in, e.target, 0) + 1),
   out |-> MapSet(m.out, e.source, MapGet(m.out, e.source, 0) + 1),
   adj |-> PushIfPresent(m.adj, e.source, e.target)]

EdgeStep(m, e) ==
  [in |-> MapSet(m.in, e.target, MapGet(m.in, e.target, 0) + 1),
   out |-> MapSet(m.out, e.source, MapGet(m.out, e.source, 0) + 1),
   adj |-> The({PushIfPresent(a, e.target, e.source) :
                  a \in {PushIfPresent(m.adj, e.source, e.target)}})]

RECURSIVE EdgePass(_, _, _)
EdgePass(m, es, i) ==
  IF i > Len(es) THEN m
  ELSE The({EdgePass(m1, es, i + 1) : m1 \in {EdgeStep(m, es[i])}})

DegreeMaps(ns, es) == EdgePass(InitMaps(ns), es, 1)

\* Number.prototype.toFixed(digits) of num/den >= 0, as a count of 10^-digits
RECURSIVE Pow10(_)
Pow10(d) == IF d = 0 THEN 1 ELSE 10 * Pow10(d - 1)
NaN == 0 - 1      \* 0 / 0
ToFixed(num, den, digits) ==
  IF den = 0 THEN NaN ELSE (2 * num * Pow10(digits) + den) \div (2 * den)

AvgInDegree(nodeCount, edgeCount) == ToFixed(edgeCount, nodeCount, 2)

\* the density of an undirected graph: n * (n - 1) / 2 possible edges
DensityUndirected(nodeCount, edgeCount) ==
  IF nodeCount > 1 THEN ToFixed(2 * edgeCount, nodeCount * (nodeCount - 1), 3) ELSE 0

Density(nodeCount, edgeCount) ==
  IF nodeCount > 1 THEN ToFixed(edgeCount, nodeCount * (nodeCount - 1), 3) ELSE 0

\* neighbors.forEach(next => { if (!visited.has(next)) { visited.add; queue.push } })
RECURSIVE VisitNeighbors(_, _, _, _)
VisitNeighbors(nb, i, queue, visited) ==
  IF i > Len(nb) THEN [queue |-> queue, visited |-> visited]
  ELSE IF nb[i] \notin visited
       THEN VisitNeighbors(nb, i + 1, Append(queue, nb[i]), visited \cup {nb[i]})
       ELSE VisitNeighbors(nb, i + 1, queue, visited)

\* while (queue.length > 0) { const curr = queue.shift()! ... }
RECURSIVE BFS(_, _, _)
BFS(adj, queue, visited) ==
  IF Len(queue) = 0 THEN visited
  ELSE The({BFS(adj, r.queue, r.visited) :
              r \in {VisitNeighbors(MapGet(adj, Head(queue), <<>>), 1, Tail(queue), visited)}})

\* a count that starts a component at every node, visited or not
RECURSIVE CountComponentsAll(_, _, _, _, _)
CountComponentsAll(ns, adj, i, visited, count) ==
  IF i > Len(ns) THEN count
  ELSE The({CountComponentsAll(ns, adj, i + 1, v, count + 1) :
              v \in {BFS(adj, <<ns[i].id>>, visited \cup {ns[i].id})}})

\* props.nodes.forEach(node => { if (!visited.has(node.id)) { connectedComponents++ ... } })
RECURSIVE CountComponents(_, _, _, _, _)
CountComponents(ns, adj, i, visited, count) ==
  IF i > Len(ns) THEN count
  ELSE IF ns[i].id \notin visited
       THEN The({CountComponents(ns, adj, i + 1, v, count + 1) :
                   v \in {BFS(adj, <<ns[i].id>>, visited \cup {ns[i].id})}})
       ELSE CountComponents(ns, adj, i + 1, visited, count)

ConnectedComponents(ns, m) == CountComponents(ns, m.adj, 1, {}, 0)

\* .map(n => ({ ...n, degree, in, out }))
WithDegree(n, m) ==
  [id |-> n.id, label |-> n.label,
   degree |-> MapGet(m.in, n.id, 0) + MapGet(m.out, n.id, 0),
   in |-> MapGet(m.in, n.id, 0), out |-> MapGet(m.out, n.id, 0)]

\* the comparator (a, b) => b.degree - a.degree
Compare(a, b) == b.degree - a.degree

\* an insertion that puts x before the elements that compare equal to it
RECURSIVE InsertSortedUnstable(_, _)
InsertSortedUnstable(sorted, x) ==
  IF Len(sorted) = 0 THEN <<x>>
  ELSE IF Compare(Head(sorted), x) < 0
       THEN <<Head(sorted)>> \o InsertSortedUnstable(Tail(sorted), x)
       ELSE <<x>> \o sorted

\* Array.prototype.sort is stable: x goes behind every element it does not precede
RECURSIVE InsertSorted(_, _)
InsertSorted(sorted, x) ==
  IF Len(sorted) = 0 THEN <<x>>
  ELSE IF Compare(Head(sorted), x) <= 0
       THEN <<Head(sorted)>> \o InsertSorted(Tail(sorted), x)
       ELSE <<x>> \o sorted

RECURSIVE SortFrom(_, _, _)
SortFrom(s, i, acc) ==
  IF i > Len(s) THEN acc
  ELSE The({SortFrom(s, i + 1, a) : a \in {InsertSorted(acc, s[i])}})

Sort(s) == SortFrom(s, 1, <<>>)

\* .slice(0, n)
Slice(s, n) == SubSeq(s, 1, Min(n, Len(s)))

TopCount == 5

\* a ranking that sorts props.nodes itself: the array handed over ends up in
\* rank order
RankInPlace(ns, m) ==
  The({[props |-> [i \in 1..Len(ns) |-> [id |-> sorted[i].id, label |-> sorted[i].label]],
        sorted |-> sorted] :
          sorted \in {Sort([i \in 1..Len(ns) |-> WithDegree(ns[i], m)])}})

\* [...props.nodes].map(...).sort(...): the spread and the map allocate, the
\* sort reorders the new array; props: what props.nodes holds afterwards
Rank(ns, m) ==
  [props |-> ns, sorted |-> Sort([i \in 1..Len(ns) |-> WithDegree(ns[i], m)])]

MostConnected(ns, m) == Slice(Rank(ns, m).sorted, TopCount)

NullMetrics == [isNull |-> TRUE]

ComputeMetrics(given, ns, es) ==
  IF NoNodes(given, ns) THEN NullMetrics
  ELSE The({[isNull |-> FALSE,
             nodeCount |-> Len(ns),
             edgeCount |-> Len(es),
             avgInDegree |-> AvgInDegree(Len(ns), Len(es)),
             density |-> Density(Len(ns), Len(es)),
             connectedComponents |-> ConnectedComponents(ns, m),
             mostConnected |-> MostConnected(ns, m)] : m \in {DegreeMaps(ns, es)}})

\* props.nodes after the metrics memo has run
NodesAfterMetrics(given, ns, es) ==
  IF NoNodes(given, ns) THEN ns
  ELSE The({Rank(ns, m).props : m \in {DegreeMaps(ns, es)}})

\* the branch of the returned JSX
Displayed(given, ns) == IF NoNodes(given, ns) THEN "empty" ELSE "graph"

(***************************************************************************)
(* Force simulation (the simulation useEffect)                             *)
(***************************************************************************)
MAX_TICKS == 2            \* cap of the tick counter (300 in the source)
Padding == 60             \* const padding = 60
RepulsionK == 400         \* k * 8000, k = 0.05
AttractionDen == 4000     \* attraction = (k * dist) / 200 = dist / 4000
GravityDen == 10000       \* gravity = 0.0001
DampingNum == 9           \* damping = 0.90
DampingDen == 10
DefaultCanvasWidth == 300   \* a <canvas> without width/height attributes
DefaultCanvasHeight == 150

NoCanvas == [present |-> FALSE, width |-> 0, height |-> 0]
NewCanvas == [present |-> TRUE, width |-> DefaultCanvasWidth, height |-> DefaultCanvasHeight]

NodeIds(ns) == {ns[i].id : i \in 1..Len(ns)}

\* Math.sqrt, rounded down to a whole unit
RECURSIVE SqrtSearch(_, _, _)
SqrtSearch(n, lo, hi) ==
  IF hi - lo <= 1 THEN lo
  ELSE The({IF mid * mid <= n THEN SqrtSearch(n, mid, hi) ELSE SqrtSearch(n, lo, mid) :
              mid \in {(lo + hi) \div 2}})
Sqrt(n) == The({SqrtSearch(v, 0, 46341) : v \in {n}})

\* the force on a node at p from another node at q (inverse-square repulsion)
Repulsion(p, q) ==
  LET dx == p.x - q.x
      dy == p.y - q.y
  IN The({ The({ [fx |-> TDiv(dx * repulsion, dist), fy |-> TDiv(dy * repulsion, dist)] :
                   repulsion \in {TDiv(TDiv(RepulsionK * SCALE * SCALE, dist) * SCALE, dist)} }) :
             dist \in {Sqrt(dx * dx + dy * dy) + SCALE} })

\* props.nodes.forEach(other => { if (other.id === node.id) return ... })
RECURSIVE RepulsionSum(_, _, _, _, _)
RepulsionSum(ns, j, id, pos, f) ==
  IF j > Len(ns) THEN f
  ELSE IF ns[j].id = id THEN RepulsionSum(ns, j + 1, id, pos, f)
       ELSE The({RepulsionSum(ns, j + 1, id, pos, g) :
                   g \in {[fx |-> f.fx + r.fx, fy |-> f.fy + r.fy] :
                            r \in {Repulsion(pos[id], pos[ns[j].id])}}})

\* the pull on a node at p toward the other endpoint at q of one of its edges
Attraction(p, q) ==
  LET dx == q.x - p.x
      dy == q.y - p.y
  IN The({ [fx |-> TDiv(TDiv(dx * dist, dist + SCALE), AttractionDen),
            fy |-> TDiv(TDiv(dy * dist, dist + SCALE), AttractionDen)] :
             dist \in {Sqrt(dx * dx + dy * dy)} })

\* the id whose position an edge makes the force on node `id` read, or NULL
EdgeOther(e, id, pos) ==
  IF e.source = id
  THEN (IF e.target \in DOMAIN pos THEN e.target ELSE NULL)
  ELSE IF e.target = id
       THEN (IF e.source \in DOMAIN pos THEN e.source ELSE NULL)
       ELSE NULL

\* props.edges.forEach(edge => { if (edge.source === node.id) ... else if (edge.target === node.id) ... })
RECURSIVE AttractionSum(_, _, _, _, _)
AttractionSum(es, k, id, pos, f) ==
  IF k > Len(es) THEN f
  ELSE The({ IF o = NULL THEN AttractionSum(es, k + 1, id, pos, f)
             ELSE The({AttractionSum(es, k + 1, id, pos, g) :
                         g \in {[fx |-> f.fx + a.fx, fy |-> f.fy + a.fy] :
                                  a \in {Attraction(pos[id], pos[o])}}}) :
               o \in {EdgeOther(es[k], id, pos)} })

\* a clamp that forgets the lower bound
ClampUpperOnly(v, dimension) == Min((dimension - Padding) * SCALE, v)

\* Math.max(padding, Math.min(dimension - padding, v))
Clamp(v, dimension) == Max(Padding * SCALE, Min((dimension - Padding) * SCALE, v))

\* the body of the per-node loop: forces, integration, clamp (in place)
\* fx += dx * gravity with dx = canvas.width / 2 - pos.x
Gravity(v, dimension) == TDiv((dimension * SCALE) \div 2 - v, GravityDen)

\* vel.vx = (vel.vx + fx) * damping
Damp(v, f) == TDiv((v + f) * DampingNum, DampingDen)

StepNode(id, ns, es, cv, pos, vel) ==
  The({ The({ [pos |-> [pos EXCEPT ![id] = [x |-> Clamp(@.x + v.vx, cv.width),
                                            y |-> Clamp(@.y + v.vy, cv.height)]],
               vel |-> [vel EXCEPT ![id] = v]] :
                v \in {[vx |-> Damp(vel[id].vx, f.fx + Gravity(pos[id].x, cv.width)),
                        vy |-> Damp(vel[id].vy, f.fy + Gravity(pos[id].y, cv.height))]} }) :
          f \in {AttractionSum(es, 1, id, pos, rep) :
                   rep \in {RepulsionSum(ns, 1, id, pos, [fx |-> 0, fy |-> 0])}} })

\* props.nodes.forEach(node => { ... }) of one tick
RECURSIVE TickNodes(_, _, _, _, _, _)
TickNodes(ns, i, es, cv, pos, vel) ==
  IF i > Len(ns) THEN [pos |-> pos, vel |-> vel]
  ELSE The({TickNodes(ns, i + 1, es, cv, r.pos, r.vel) :
              r \in {StepNode(ns[i].id, ns, es, cv, pos, vel)}})

\* Math.random() is a multiple of 1 / RandomDen; a stream is the pairs of values
\* that successive pairs of calls return
RandomDen == 2
RandomStreams == { <<<<0, 0>>, <<1, 1>>>>, <<<<1, 1>>, <<1, 1>>>> }

\* the streams that matter to an effect run: Math.random() is called only for
\* the nodes that have no position yet
StreamsFor(given, ns, pos) ==
  IF NoNodes(given, ns) \/ NodeIds(ns) \subseteq DOMAIN pos
  THEN {CHOOSE rnd \in RandomStreams : TRUE} ELSE RandomStreams

\* x: Math.random() * canvas.width, y: Math.random() * canvas.height
RandomPosition(draw, cv) ==
  [x |-> (draw[1] * cv.width * SCALE) \div RandomDen,
   y |-> (draw[2] * cv.height * SCALE) \div RandomDen]

\* an initialisation that zeroes the velocity of the ids that have an entry
RECURSIVE InitEntriesReset(_, _, _, _, _, _)
InitEntriesReset(ns, i, pos, vel, rnd, cv) ==
  IF i > Len(ns) THEN [pos |-> pos, vel |-> vel]
  ELSE IF ns[i].id \in DOMAIN pos
       THEN The({InitEntriesReset(ns, i + 1, pos, v, rnd, cv) :
                   v \in {MapSet(vel, ns[i].id, [vx |-> 0, vy |-> 0])}})
       ELSE The({InitEntriesReset(ns, i + 1, p, v, Tail(rnd), cv) :
                   p \in {MapSet(pos, ns[i].id, RandomPosition(Head(rnd), cv))},
                   v \in {MapSet(vel, ns[i].id, [vx |-> 0, vy |-> 0])}})

\* an initialisation that gives the new ids a position and no velocity
RECURSIVE InitEntriesPositionOnly(_, _, _, _, _, _)
InitEntriesPositionOnly(ns, i, pos, vel, rnd, cv) ==
  IF i > Len(ns) THEN [pos |-> pos, vel |-> vel]
  ELSE IF ns[i].id \in DOMAIN pos THEN InitEntriesPositionOnly(ns, i + 1, pos, vel, rnd, cv)
       ELSE The({InitEntriesPositionOnly(ns, i + 1, p, vel, Tail(rnd), cv) :
                   p \in {MapSet(pos, ns[i].id, RandomPosition(Head(rnd), cv))}})

\* props.nodes.forEach(node => { if (!positionsRef.current.has(node.id)) { set; set } }),
\* the k-th node that has no entry taking the k-th pair of the stream
RECURSIVE InitEntries(_, _, _, _, _, _)
InitEntries(ns, i, pos, vel, rnd, cv) ==
  IF i > Len(ns) THEN [pos |-> pos, vel |-> vel]
  ELSE IF ns[i].id \in DOMAIN pos THEN InitEntries(ns, i + 1, pos, vel, rnd, cv)
       ELSE The({InitEntries(ns, i + 1, p, v, Tail(rnd), cv) :
                   p \in {MapSet(pos, ns[i].id, RandomPosition(Head(rnd), cv))},
                   v \in {MapSet(vel, ns[i].id, [vx |-> 0, vy |-> 0])}})

\* every positions.get(id)! / velocities.get(id)! of a simulate call finds its entry
ReadsDefined(cl, pos, vel) ==
  /\ NodeIds(cl.nodes) \subseteq DOMAIN pos
  /\ (cl.ticks < MAX_TICKS) => (NodeIds(cl.nodes) \subseteq DOMAIN vel)

\* a simulate() whose guard lets one more tick through
SimulateOneMore(cl, cv, pos, vel) ==
  IF ~ReadsDefined(cl, pos, vel)
  THEN [pos |-> pos, vel |-> vel, ticks |-> cl.ticks, ticked |-> FALSE, threw |-> TRUE]
  ELSE IF cl.ticks <= MAX_TICKS /\ NodeIds(cl.nodes) \subseteq DOMAIN vel
       THEN The({[pos |-> r.pos, vel |-> r.vel, ticks |-> cl.ticks + 1,
                  ticked |-> TRUE, threw |-> FALSE] :
                   r \in {TickNodes(cl.nodes, 1, cl.edges, cv, pos, vel)}})
       ELSE [pos |-> pos, vel |-> vel, ticks |-> cl.ticks, ticked |-> FALSE, threw |-> FALSE]

\* one call of simulate() in the closure cl = [ticks, nodes, edges, hov]
Simulate(cl, cv, pos, vel) ==
  IF ~ReadsDefined(cl, pos, vel)
  THEN [pos |-> pos, vel |-> vel, ticks |-> cl.ticks, ticked |-> FALSE, threw |-> TRUE]
  ELSE IF cl.ticks < MAX_TICKS
       THEN The({[pos |-> r.pos, vel |-> r.vel, ticks |-> cl.ticks + 1,
                  ticked |-> TRUE, threw |-> FALSE] :
                   r \in {TickNodes(cl.nodes, 1, cl.edges, cv, pos, vel)}})
       ELSE [pos |-> pos, vel |-> vel, ticks |-> cl.ticks, ticked |-> FALSE, threw |-> FALSE]

\* requestAnimationFrame: a handle no scheduled callback has
FreshHandle(pending) ==
  CHOOSE h \in 1..(Cardinality(pending) + 1) : \A cb \in pending : cb.handle # h

Callback(h, t, ns, es, hov) ==
  [handle |-> h, ticks |-> t, nodes |-> ns, edges |-> es, hov |-> hov]

\* cancelAnimationFrame(id)
CancelAnimationFrame(pending, id) == {cb \in pending : cb.handle # id}

\* a cleanup that cancels nothing
EffectCleanupNone(pending, id) == pending

\* the cleanup the effect returned: () => cancelAnimationFrame(animationId)
EffectCleanup(pending, id) ==
  IF id = 0 THEN pending ELSE CancelAnimationFrame(pending, id)

(***************************************************************************)
(* Pointer hit test (handleMouseMove / onMouseMove)                        *)
(***************************************************************************)
PickRadiusSq == 100       \* dx * dx + dy * dy <= 100

NoTooltip == [shown |-> FALSE]

\* the state does not come from a mousemove event
NoPointer == [x |-> 0 - 1, y |-> 0 - 1]

\* a pick radius that leaves out the circle itself
WithinStrict(p, mx, my) ==
  LET dx == mx - p.x
      dy == my - p.y
  IN dx * dx + dy * dy < PickRadiusSq * SCALE * SCALE

Within(p, mx, my) ==
  LET dx == mx - p.x
      dy == my - p.y
  IN dx * dx + dy * dy <= PickRadiusSq * SCALE * SCALE

\* props.nodes.forEach(node => { ... foundNode = node }): index of foundNode, 0 for null
RECURSIVE HitScan(_, _, _, _, _, _)
HitScan(ns, i, pos, mx, my, found) ==
  IF i > Len(ns) THEN found
  ELSE IF ns[i].id \in DOMAIN pos /\ Within(pos[ns[i].id], mx, my)
       THEN HitScan(ns, i + 1, pos, mx, my, i)
       ELSE HitScan(ns, i + 1, pos, mx, my, found)

\* a scan that leaves out the first node of the list
HitTestSkipFirst(ns, pos, mx, my) == HitScan(ns, 2, pos, mx, my, 0)

HitTest(ns, pos, mx, my) == HitScan(ns, 1, pos, mx, my, 0)

(***************************************************************************)
(* Drawing: the second half of simulate()                                  *)
(***************************************************************************)
NoFrame == [drawn |-> FALSE]

\* `hoveredNodeId &&`: null and the empty string are falsy
Truthy(hov) == hov # NULL /\ hov # ""

\* isConnectedToHovered(nodeId) in the render that has hov as hoveredNodeId
IsConnectedToHovered(nodeId, hov, es) ==
  /\ Truthy(hov)
  /\ \E k \in 1..Len(es) : \/ (es[k].source = hov /\ es[k].target = nodeId)
                            \/ (es[k].target = hov /\ es[k].source = nodeId)

\* ctx.strokeStyle of an edge
EdgeStroke(e, hov) ==
  LET isHovered == hov = e.source \/ hov = e.target
      isDimmed == Truthy(hov) /\ ~isHovered
  IN IF isDimmed THEN "#e0e0e0" ELSE IF isHovered THEN "#333333" ELSE "#999999"

\* isHovered / isDimmed of a node
NodeLook(id, hov, es) ==
  LET isHovered == hov = id
      isDimmed == Truthy(hov) /\ ~isHovered /\ ~IsConnectedToHovered(id, hov, es)
  IN [isHovered |-> isHovered, isDimmed |-> isDimmed]

\* the edges that are drawn: if (source && target)
DrawnEdges(es, pos) ==
  {k \in 1..Len(es) : es[k].source \in DOMAIN pos /\ es[k].target \in DOMAIN pos}

\* the ids for which a positions.get(...) of the call returned a stored entry
PositionsRead(cl, pos) ==
  (NodeIds(cl.nodes) \cup {cl.edges[k].source : k \in 1..Len(cl.edges)}
                     \cup {cl.edges[k].target : k \in 1..Len(cl.edges)}) \cap DOMAIN pos

\* what one simulate() call of the closure cl puts on the canvas
Draw(cl, pos) ==
  [drawn |-> TRUE, hov |-> cl.hov, read |-> PositionsRead(cl, pos),
   edges |-> [k \in DrawnEdges(cl.edges, pos) |-> EdgeStroke(cl.edges[k], cl.hov)],
   nodes |-> [i \in 1..Len(cl.nodes) |-> NodeLook(cl.nodes[i].id, cl.hov, cl.edges)]]

\* the canvas after the simulation effect ran: drawn by its simulate() call,
\* or no canvas to draw on
DrawnBy(eff, ns, es, hov) ==
  IF eff.animationId # 0 THEN Draw(Callback(0, 0, ns, es, hov), eff.pos) ELSE NoFrame

NoLegend == [language |-> <<>>, color |-> NULL]

(***************************************************************************)
(* Language colours.  A string is the sequence of its characters.          *)
(***************************************************************************)
\* LANGUAGE_COLORS: the own properties of the object, in source order
LANGUAGE_COLORS ==
  <<[key |-> <<"j", "a", "v", "a", "s", "c", "r", "i", "p", "t">>, color |-> "#f7df1e"],
     [key |-> <<"t", "y", "p", "e", "s", "c", "r", "i", "p", "t">>, color |-> "#3178c6"],
     [key |-> <<"j", "s", "x">>, color |-> "#61dafb"],
     [key |-> <<"t", "s", "x">>, color |-> "#3178c6"],
     [key |-> <<"h", "t", "m", "l">>, color |-> "#e34c26"],
     [key |-> <<"c", "s", "s">>, color |-> "#563d7c"],
     [key |-> <<"s", "c", "s", "s">>, color |-> "#c6538c"],
     [key |-> <<"p", "y", "t", "h", "o", "n">>, color |-> "#3776ab"],
     [key |-> <<"j", "a", "v", "a">>, color |-> "#007396"],
     [key |-> <<"k", "o", "t", "l", "i", "n">>, color |-> "#7f52ff"],
     [key |-> <<"c">>, color |-> "#a8b9cc"],
     [key |-> <<"c", "p", "p">>, color |-> "#00599c"],
     [key |-> <<"c", "+", "+">>, color |-> "#00599c"],
     [key |-> <<"c", "s", "h", "a", "r", "p">>, color |-> "#239120"],
     [key |-> <<"g", "o">>, color |-> "#00add8"],
     [key |-> <<"r", "u", "s", "t">>, color |-> "#ce422b"],
     [key |-> <<"r", "u", "b", "y">>, color |-> "#cc342d"],
     [key |-> <<"p", "h", "p">>, color |-> "#777bb4"],
     [key |-> <<"s", "h", "e", "l", "l">>, color |-> "#4ee745"],
     [key |-> <<"b", "a", "s", "h">>, color |-> "#4ee745"],
     [key |-> <<"j", "s", "o", "n">>, color |-> "#f7df1e"],
     [key |-> <<"y", "a", "m", "l">>, color |-> "#cb171e"],
     [key |-> <<"t", "o", "m", "l">>, color |-> "#9c4221"],
     [key |-> <<"x", "m", "l">>, color |-> "#0078d4"],
     [key |-> <<"d", "e", "f", "a", "u", "l", "t">>, color |-> "#9a9a9a"]>>

\* the properties every object literal inherits from Object.prototype whose
\* names are lower-case, and the printed form of their values
ObjectPrototype ==
  <<[key |-> <<"c", "o", "n", "s", "t", "r", "u", "c", "t", "o", "r">>, color |-> "function Object() { [native code] }"],
    [key |-> <<"_", "_", "p", "r", "o", "t", "o", "_", "_">>, color |-> "[object Object]"]>>

UpperCase == <<"A", "B", "C", "D", "E", "F", "G", "H", "I", "J", "K", "L", "M", "N", "O", "P", "Q", "R", "S", "T", "U", "V", "W", "X", "Y", "Z">>
LowerCase == <<"a", "b", "c", "d", "e", "f", "g", "h", "i", "j", "k", "l", "m", "n", "o", "p", "q", "r", "s", "t", "u", "v", "w", "x", "y", "z">>
WhiteSpace == {" ", "\t", "\n"}

\* String.prototype.toLowerCase
ToLowerCase(s) ==
  [i \in 1..Len(s) |->
     IF \E n \in 1..Len(UpperCase) : UpperCase[n] = s[i]
     THEN LowerCase[CHOOSE n \in 1..Len(UpperCase) : UpperCase[n] = s[i]]
     ELSE s[i]]

RECURSIVE TrimStart(_)
TrimStart(s) ==
  IF Len(s) > 0 /\ Head(s) \in WhiteSpace THEN TrimStart(Tail(s)) ELSE s

RECURSIVE TrimEnd(_)
TrimEnd(s) ==
  IF Len(s) > 0 /\ s[Len(s)] \in WhiteSpace THEN TrimEnd(SubSeq(s, 1, Len(s) - 1)) ELSE s

\* String.prototype.trim
Trim(s) == TrimEnd(TrimStart(s))

\* obj[key] for the properties listed in props, or undefined (NULL)
RECURSIVE Property(_, _, _)
Property(props, i, key) ==
  IF i > Len(props) THEN NULL
  ELSE IF props[i].key = key THEN props[i].color ELSE Property(props, i + 1, key)

\* LANGUAGE_COLORS[key]: an own property, else one found on the prototype chain
Get(key) ==
  IF Property(LANGUAGE_COLORS, 1, key) # NULL THEN Property(LANGUAGE_COLORS, 1, key)
  ELSE Property(ObjectPrototype, 1, key)

\* getLanguageColor: LANGUAGE_COLORS[lang] || LANGUAGE_COLORS['default']
getLanguageColor(language) ==
  LET lang == Trim(ToLowerCase(language))
      found == Get(lang)
  IN IF found # NULL /\ found # "" THEN found ELSE Get(<<"d", "e", "f", "a", "u", "l", "t">>)

(***************************************************************************)
(* AnalysisView: the analysis context (currentComponent, error) and the    *)
(* isWaiting flag of the form                                              *)
(***************************************************************************)
NoComponent == [type |-> NULL]

\* initialState of the context, useState(false) of isWaiting; `crashed` is set
\* when an exception leaves the React tree
NoView == [component |-> NoComponent, error |-> NULL, isWaiting |-> FALSE,
           layout |-> "none", crashed |-> FALSE]

(***************************************************************************)
(* The component: render, effects, events                                  *)
(***************************************************************************)
\* the snapshots the parent hands over: [given, ids, edges]
Snapshots ==
  { [given |-> FALSE, ids |-> <<>>, edges |-> <<>>],
    [given |-> TRUE, ids |-> <<>>, edges |-> <<>>],
    [given |-> TRUE, ids |-> <<"a">>, edges |-> <<>>],
    [given |-> TRUE, ids |-> <<"a", "b">>, edges |-> <<MkEdge("a", "b")>>],
    [given |-> TRUE, ids |-> <<"c", "b">>, edges |-> <<MkEdge("a", "b")>>],
    [given |-> TRUE, ids |-> <<"a", "a">>, edges |-> <<>>] }

\* client sizes of the canvas wrapper
ContainerSizes == {[width |-> 100, height |-> 100], [width |-> 300, height |-> 200]}

\* pointer places, relative to a node's position
PointerOffsets == {<<0, 0>>, <<10 * SCALE, 0>>, <<10 * SCALE + 1, 0>>}

\* the <canvas> after a render: kept while the graph stays displayed
RenderCanvas(shown, cv) ==
  IF shown = "graph" THEN (IF cv.present THEN cv ELSE NewCanvas) ELSE NoCanvas

\* a handler that takes over the width only
HandleResizeWidthOnly(cv, size) ==
  IF cv.present THEN [cv EXCEPT !.width = size.width] ELSE cv

\* handleResize: canvas.width = container.clientWidth; canvas.height = container.clientHeight
HandleResize(cv, size) ==
  IF cv.present THEN [present |-> TRUE, width |-> size.width, height |-> size.height] ELSE cv

\* the body of the simulation effect, after the previous cleanup has run
RunSimEffect(given, ns, es, hov, cv, pos, vel, pending, rnd) ==
  IF NoNodes(given, ns) \/ ~cv.present
  THEN [pos |-> pos, vel |-> vel, raf |-> pending, animationId |-> 0,
        threw |-> FALSE, ticked |-> FALSE]
  ELSE The({ IF r.threw
             THEN [pos |-> r.pos, vel |-> r.vel, raf |-> pending, animationId |-> 0,
                   threw |-> TRUE, ticked |-> FALSE]
             ELSE [pos |-> r.pos, vel |-> r.vel,
                   raf |-> pending \cup {Callback(FreshHandle(pending), r.ticks, ns, es, hov)},
                   animationId |-> FreshHandle(pending), threw |-> FALSE,
                   ticked |-> r.ticked] :
               r \in {Simulate(Callback(0, 0, ns, es, hov), cv, e.pos, e.vel) :
                        e \in {InitEntries(ns, 1, pos, vel, rnd, cv)}} })

Step(op, ticked, cv) ==
  [op |-> op, ticked |-> ticked,
   width |-> IF ticked THEN cv.width ELSE 0, height |-> IF ticked THEN cv.height ELSE 0]

\* the state after the first render and the first run of the three effects
Mount(snap, size, rnd) ==
      LET ns == MkNodes(snap.ids)
          shown == Displayed(snap.given, ns)
          cv == RenderCanvas(shown, NoCanvas)
      IN \E eff \in {RunSimEffect(snap.given, ns, snap.edges, NULL, cv,
                                  EmptyMap, EmptyMap, {}, rnd)} :
         /\ nodesGiven = snap.given
         /\ nodes = NodesAfterMetrics(snap.given, ns, snap.edges)
         /\ edges = snap.edges
         /\ metrics = ComputeMetrics(snap.given, ns, snap.edges)
         /\ display = shown
         /\ mounted = TRUE
         /\ container = size
         /\ canvas = HandleResize(cv, size)
         /\ positions = eff.pos
         /\ velocities = eff.vel
         /\ raf = eff.raf
         /\ animationId = eff.animationId
         /\ threw = eff.threw
         /\ hoveredNodeId = NULL
         /\ tooltip = NoTooltip
         /\ lastStep = Step("mount", eff.ticked, cv)
         /\ events = 0
         /\ pointer = NoPointer
         /\ view = NoView
         /\ frame = DrawnBy(eff, ns, snap.edges, NULL)
         /\ legend = NoLegend

Init ==
  \E snap \in Snapshots, size \in ContainerSizes, rnd \in RandomStreams :
    Mount(snap, size, rnd)

\* the parent passes a new snapshot: render, cleanup, effect
SetProps ==
  /\ mounted /\ events < MaxEvents
  /\ \E snap \in Snapshots :
       \E rnd \in StreamsFor(snap.given, MkNodes(snap.ids), positions) :
         LET ns == MkNodes(snap.ids)
             shown == Displayed(snap.given, ns)
             cv == RenderCanvas(shown, canvas)
         IN \E eff \in {RunSimEffect(snap.given, ns, snap.edges, hoveredNodeId, cv,
                                     positions, velocities,
                                     EffectCleanup(raf, animationId), rnd)} :
            /\ nodesGiven' = snap.given
            /\ nodes' = NodesAfterMetrics(snap.given, ns, snap.edges)
            /\ edges' = snap.edges
            /\ metrics' = ComputeMetrics(snap.given, ns, snap.edges)
            /\ display' = shown
            /\ canvas' = cv
            /\ positions' = eff.pos
            /\ velocities' = eff.vel
            /\ raf' = eff.raf
            /\ animationId' = eff.animationId
            /\ threw' = (threw \/ eff.threw)
            /\ lastStep' = Step("props", eff.ticked, cv)
            /\ frame' = DrawnBy(eff, ns, snap.edges, hoveredNodeId)
  /\ events' = events + 1
  /\ pointer' = NoPointer
  /\ UNCHANGED <<mounted, container, hoveredNodeId, tooltip, view, legend>>

\* setHoveredNodeId / setTooltip, then the re-render and the effect it re-runs
SetHover(op, hov, tip) ==
  /\ hoveredNodeId' = hov
  /\ tooltip' = tip
  /\ IF hov # hoveredNodeId
     THEN \E eff \in {RunSimEffect(nodesGiven, nodes, edges, hov, canvas, positions,
                                    velocities, EffectCleanup(raf, animationId), <<>>)} :
             /\ positions' = eff.pos
             /\ velocities' = eff.vel
             /\ raf' = eff.raf
             /\ animationId' = eff.animationId
             /\ threw' = (threw \/ eff.threw)
             /\ lastStep' = Step(op, eff.ticked, canvas)
             /\ frame' = DrawnBy(eff, nodes, edges, hov)
     ELSE /\ UNCHANGED <<positions, velocities, raf, animationId, threw, frame>>
          /\ lastStep' = Step(op, FALSE, canvas)
  /\ events' = events + 1
  /\ UNCHANGED <<nodesGiven, nodes, edges, metrics, display, mounted, canvas, container,
                 view, legend>>

\* handleMouseMove with the pointer at (mx, my) on the canvas
HandleMouseMove(mx, my) ==
  /\ mounted /\ canvas.present /\ events < MaxEvents
  /\ pointer' = [x |-> mx, y |-> my]
  /\ \E found \in {HitTest(nodes, positions, mx, my)} :
        IF found # 0
        THEN SetHover("move", nodes[found].id,
                      [shown |-> TRUE, x |-> mx, y |-> my, node |-> nodes[found]])
        ELSE SetHover("move", NULL, NoTooltip)

MouseMove ==
  \E id \in NodeIds(nodes) \cap DOMAIN positions, off \in PointerOffsets :
    \E mx \in {positions[id].x + off[1]}, my \in {positions[id].y + off[2]} :
      HandleMouseMove(mx, my)

\* a leave handler that clears the hovered id and keeps the tooltip
HandleMouseLeaveHoverOnly ==
  /\ mounted /\ canvas.present /\ events < MaxEvents
  /\ SetHover("leave", NULL, tooltip)
  /\ pointer' = NoPointer

\* handleMouseLeave
HandleMouseLeave ==
  /\ mounted /\ canvas.present /\ events < MaxEvents
  /\ SetHover("leave", NULL, NoTooltip)
  /\ pointer' = NoPointer

\* a window resize event after the wrapper took another size
Resize ==
  /\ mounted /\ events < MaxEvents
  /\ \E size \in ContainerSizes \ {container} :
       /\ container' = size
       /\ canvas' = HandleResize(canvas, size)
  /\ lastStep' = Step("resize", FALSE, canvas)
  /\ events' = events + 1
  /\ pointer' = NoPointer
  /\ UNCHANGED <<nodesGiven, nodes, edges, metrics, display, mounted, positions,
                 velocities, hoveredNodeId, tooltip, raf, animationId, threw, view,
                 frame, legend>>

\* the component unmounts: every effect's cleanup runs
Unmount ==
  /\ mounted /\ events < MaxEvents
  /\ mounted' = FALSE
  /\ raf' = EffectCleanup(raf, animationId)
  /\ animationId' = 0
  /\ canvas' = [canvas EXCEPT !.present = FALSE]
  /\ lastStep' = Step("unmount", FALSE, canvas)
  /\ events' = events + 1
  /\ pointer' = NoPointer
  /\ UNCHANGED <<nodesGiven, nodes, edges, metrics, display, container, positions,
                 velocities, hoveredNodeId, tooltip, threw, view, frame, legend>>

\* the callbacks of the loop whose cleanup is registered
CurrentLoop == {cb \in raf : cb.handle = animationId}

\* the browser runs a scheduled callback: simulate() draws and schedules itself again
Frame ==
  \E cb \in raf :
    \E r \in {Simulate(cb, canvas, positions, velocities)}, rest \in {raf \ {cb}} :
     \E h \in {FreshHandle(rest)} :
       /\ positions' = r.pos
       /\ velocities' = r.vel
       /\ raf' = IF r.threw THEN rest
                 ELSE rest \cup {Callback(h, r.ticks, cb.nodes, cb.edges, cb.hov)}
       /\ animationId' = IF animationId = cb.handle /\ ~r.threw THEN h ELSE animationId
       /\ threw' = (threw \/ r.threw)
       /\ lastStep' = Step(IF r.ticked THEN "tick" ELSE "draw", r.ticked, canvas)
       /\ frame' = IF r.threw THEN frame ELSE Draw(cb, r.pos)
       /\ pointer' = NoPointer
       /\ UNCHANGED <<nodesGiven, nodes, edges, metrics, display, mounted, canvas,
                      container, hoveredNodeId, tooltip, events, view, legend>>

Next == SetProps \/ MouseMove \/ HandleMouseLeave \/ Resize \/ Unmount \/ Frame

Spec == Init /\ [][Next]_vars

\* one mount during which neither the graph nor the hovered node changes, the
\* browser running every callback that stays scheduled
NextLoop == Frame \/ Resize \/ Unmount

LoopSpec == Init /\ [][NextLoop]_vars /\ WF_vars(Frame)

\* one mount during which the parent replaces the snapshot and the wrapper is
\* resized; the pointer stays away
NextProps == SetProps \/ Resize \/ Frame

PropsSpec == Init /\ [][NextProps]_vars

\* one mount of a graph on which the pointer moves; the ids are any strings,
\* the empty string included
HoverSnapshots ==
  { [given |-> TRUE, ids |-> <<"", "a">>, edges |-> <<MkEdge("a", "a")>>],
    [given |-> TRUE, ids |-> <<"a", "b">>, edges |-> <<MkEdge("a", "a")>>],
    [given |-> TRUE, ids |-> <<"a", "b">>, edges |-> <<MkEdge("b", "a")>>] }

InitHover ==
  \E snap \in HoverSnapshots, size \in ContainerSizes, rnd \in RandomStreams :
    Mount(snap, size, rnd)

NextHover == MouseMove \/ HandleMouseLeave \/ Frame

HoverSpec == InitHover /\ [][NextHover]_vars

\* The same component with React's scheduling spelled out: a pointer handler
\* only calls setHoveredNodeId / setTooltip; the re-render and the effects it
\* re-runs come in a later task, and animation frames may run in between.
SetHoverState(op, hov, tip) ==
  /\ mounted /\ canvas.present /\ events < MaxEvents
  /\ hoveredNodeId' = hov
  /\ tooltip' = tip
  /\ lastStep' = Step(op, FALSE, canvas)
  /\ events' = events + 1
  /\ UNCHANGED <<nodesGiven, nodes, edges, metrics, display, mounted, canvas, container,
                 positions, velocities, raf, animationId, threw, view, frame, legend>>

\* handleMouseMove, the handler alone
PointerMove ==
  \E id \in NodeIds(nodes) \cap DOMAIN positions, off \in PointerOffsets :
    \E mx \in {positions[id].x + off[1]}, my \in {positions[id].y + off[2]} :
      /\ pointer' = [x |-> mx, y |-> my]
      /\ \E found \in {HitTest(nodes, positions, mx, my)} :
            IF found # 0
            THEN SetHoverState("move", nodes[found].id,
                               [shown |-> TRUE, x |-> mx, y |-> my, node |-> nodes[found]])
            ELSE SetHoverState("move", NULL, NoTooltip)

\* handleMouseLeave, the handler alone
PointerLeave ==
  /\ SetHoverState("leave", NULL, NoTooltip)
  /\ pointer' = NoPointer

\* the re-render after hoveredNodeId changed: cleanup of the simulation effect,
\* then the effect with the new closure
Commit ==
  /\ mounted /\ canvas.present
  /\ \E cb \in CurrentLoop : cb.hov # hoveredNodeId
  /\ \E eff \in {RunSimEffect(nodesGiven, nodes, edges, hoveredNodeId, canvas, positions,
                               velocities, EffectCleanup(raf, animationId), <<>>)} :
       /\ positions' = eff.pos
       /\ velocities' = eff.vel
       /\ raf' = eff.raf
       /\ animationId' = eff.animationId
       /\ threw' = (threw \/ eff.threw)
       /\ lastStep' = Step("commit", eff.ticked, canvas)
       /\ frame' = DrawnBy(eff, nodes, edges, hoveredNodeId)
  /\ pointer' = NoPointer
  /\ UNCHANGED <<nodesGiven, nodes, edges, metrics, display, mounted, canvas, container,
                 hoveredNodeId, tooltip, events, view, legend>>

NextDeferred == PointerMove \/ PointerLeave \/ Commit \/ Frame

DeferredSpec == Init /\ [][NextDeferred]_vars

(***************************************************************************)
(* AnalysisView and AnalysisLayout around the component                    *)
(***************************************************************************)
\* COMPONENT_REGISTRY
Registry == {"DependencyGraph", "FunctionExplorer", "ExecutionFlowView"}
UnknownType == "Chart"

\* decision.props of a DependencyGraph decision: the nodes / edges keys may be
\* missing and a key the strict schema does not know may be present
MkProps(given, ids, edgesGiven, es, extra) ==
  [given |-> given, ids |-> ids, edgesGiven |-> edgesGiven, edges |-> es, extra |-> extra]

DecisionProps ==
  {MkProps(snap.given, snap.ids, TRUE, snap.edges, FALSE) : snap \in Snapshots}
    \cup {MkProps(TRUE, <<"a">>, FALSE, <<>>, FALSE),
          MkProps(TRUE, <<>>, FALSE, <<>>, FALSE),
          MkProps(TRUE, <<"a", "b">>, TRUE, <<MkEdge("a", "b")>>, TRUE)}

\* DependencyGraphPropsSchema.parse(props) returns (does not throw)
SchemaParse(props) == props.given /\ props.edgesGiven /\ ~props.extra

\* what the fetch of handleSendMessage comes back with
Responses ==
  {[kind |-> "notOk"], [kind |-> "noJson"],
   [kind |-> "decision", componentType |-> UnknownType, props |-> MkProps(TRUE, <<>>, TRUE, <<>>, FALSE)]}
    \cup {[kind |-> "decision", componentType |-> "DependencyGraph", props |-> pr] :
            pr \in DecisionProps}

\* the body of DependencyGraph reads props.edges.length once the node list is
\* non-empty: a TypeError when props.edges is undefined
RenderThrows(props) == (~NoNodes(props.given, MkNodes(props.ids))) /\ ~props.edgesGiven

\* the try block of AnalysisLayout creates elements and calls no component code
SwitchThrows(component) == FALSE
AnalysisLayout(component) == IF SwitchThrows(component) THEN "error" ELSE "component"

\* the branch of the main area of AnalysisView
MainArea(v) ==
  IF v.crashed THEN "crashed"
  ELSE IF v.error # NULL THEN "error"
  ELSE IF v.component.type # NULL THEN "layout" ELSE "empty"

\* DependencyGraph mounts with props pr
GraphMount(op, pr, rnd) ==
  LET ns == MkNodes(pr.ids)
      shown == Displayed(pr.given, ns)
      cv == RenderCanvas(shown, NoCanvas)
  IN \E eff \in {RunSimEffect(pr.given, ns, pr.edges, NULL, cv, EmptyMap, EmptyMap, {}, rnd)} :
       /\ nodesGiven' = pr.given
       /\ nodes' = NodesAfterMetrics(pr.given, ns, pr.edges)
       /\ edges' = pr.edges
       /\ metrics' = ComputeMetrics(pr.given, ns, pr.edges)
       /\ display' = shown
       /\ mounted' = TRUE
       /\ canvas' = HandleResize(cv, container)
       /\ positions' = eff.pos
       /\ velocities' = eff.vel
       /\ raf' = eff.raf
       /\ animationId' = eff.animationId
       /\ threw' = (threw \/ eff.threw)
       /\ hoveredNodeId' = NULL
       /\ tooltip' = NoTooltip
       /\ pointer' = NoPointer
       /\ lastStep' = Step(op, eff.ticked, cv)
       /\ frame' = DrawnBy(eff, ns, pr.edges, NULL)
       /\ legend' = legend

\* the mounted DependencyGraph renders with new props pr
GraphUpdate(op, pr, rnd) ==
  LET ns == MkNodes(pr.ids)
      shown == Displayed(pr.given, ns)
      cv == RenderCanvas(shown, canvas)
  IN \E eff \in {RunSimEffect(pr.given, ns, pr.edges, hoveredNodeId, cv, positions,
                              velocities, EffectCleanup(raf, animationId), rnd)} :
       /\ nodesGiven' = pr.given
       /\ nodes' = NodesAfterMetrics(pr.given, ns, pr.edges)
       /\ edges' = pr.edges
       /\ metrics' = ComputeMetrics(pr.given, ns, pr.edges)
       /\ display' = shown
       /\ canvas' = cv
       /\ positions' = eff.pos
       /\ velocities' = eff.vel
       /\ raf' = eff.raf
       /\ animationId' = eff.animationId
       /\ threw' = (threw \/ eff.threw)
       /\ lastStep' = Step(op, eff.ticked, cv)
       /\ frame' = DrawnBy(eff, ns, pr.edges, hoveredNodeId)
       /\ pointer' = NoPointer
       /\ UNCHANGED <<mounted, hoveredNodeId, tooltip, legend>>

\* DependencyGraph leaves the tree (thrown = TRUE: because its render threw)
GraphUnmount(op, thrown) ==
  /\ mounted' = FALSE
  /\ display' = "unrendered"
  /\ raf' = EffectCleanup(raf, animationId)
  /\ animationId' = 0
  /\ canvas' = NoCanvas
  /\ threw' = (threw \/ thrown)
  /\ lastStep' = Step(op, FALSE, canvas)
  /\ pointer' = NoPointer
  /\ frame' = NoFrame
  /\ UNCHANGED <<nodesGiven, nodes, edges, metrics, positions, velocities,
                 hoveredNodeId, tooltip, legend>>

GraphIdle(op) ==
  /\ lastStep' = Step(op, FALSE, canvas)
  /\ pointer' = NoPointer
  /\ UNCHANGED <<nodesGiven, nodes, edges, metrics, display, mounted, canvas, positions,
                 velocities, hoveredNodeId, tooltip, raf, animationId, threw, frame,
                 legend>>

\* AnalysisView renders with the context and form state v: the main area
\* mounts, updates or unmounts AnalysisLayout and the component below it
ShowView(op, v, replaced, rnd) ==
  IF MainArea(v) = "layout"
  THEN IF RenderThrows(v.component.props)
       THEN /\ view' = [v EXCEPT !.crashed = TRUE, !.layout = "none"]
            /\ GraphUnmount(op, TRUE)
       ELSE /\ view' = [v EXCEPT !.layout = AnalysisLayout(v.component)]
            /\ IF ~mounted THEN GraphMount(op, v.component.props, rnd)
               ELSE IF replaced THEN GraphUpdate(op, v.component.props, rnd)
               ELSE GraphIdle(op)
  ELSE /\ view' = [v EXCEPT !.layout = "none"]
       /\ IF mounted THEN GraphUnmount(op, FALSE) ELSE GraphIdle(op)

\* handleSendMessage up to the fetch: setIsWaiting(true), setError(null)
Submit ==
  /\ ~view.crashed /\ ~view.isWaiting /\ events < MaxEvents
  /\ \E rnd \in RandomStreams :
       ShowView("submit", [view EXCEPT !.isWaiting = TRUE, !.error = NULL], FALSE, rnd)
  /\ UNCHANGED <<container, events>>

\* the state the rest of handleSendMessage leaves for response r
Responded(v, r) ==
  IF r.kind = "notOk" THEN [v EXCEPT !.error = "Tambo API error", !.isWaiting = FALSE]
  ELSE IF r.kind = "noJson"
       THEN [v EXCEPT !.error = "Invalid response format from Tambo", !.isWaiting = FALSE]
  ELSE IF r.componentType \notin Registry
       THEN [v EXCEPT !.error = "Unknown component", !.isWaiting = FALSE]
  ELSE [v EXCEPT !.component = [type |-> r.componentType, props |-> r.props],
                 !.isWaiting = FALSE]

\* handleSendMessage after the fetch resolves
Respond ==
  /\ ~view.crashed /\ view.isWaiting
  /\ \E r \in Responses, rnd \in RandomStreams :
       \E v \in {Responded(view, r)} :
         ShowView("respond", v, v.error = NULL, rnd)
  /\ events' = events + 1
  /\ UNCHANGED container

\* the Dismiss button of the error panel: setError(null)
Dismiss ==
  /\ ~view.crashed /\ view.error # NULL
  /\ \E rnd \in RandomStreams :
       ShowView("dismiss", [view EXCEPT !.error = NULL], FALSE, rnd)
  /\ UNCHANGED <<container, events>>

\* AnalysisView mounted with the initial context, nothing rendered below it
InitView ==
  \E size \in ContainerSizes :
    /\ nodesGiven = FALSE
    /\ nodes = <<>>
    /\ edges = <<>>
    /\ metrics = NullMetrics
    /\ display = "unrendered"
    /\ mounted = FALSE
    /\ canvas = NoCanvas
    /\ container = size
    /\ positions = EmptyMap
    /\ velocities = EmptyMap
    /\ hoveredNodeId = NULL
    /\ tooltip = NoTooltip
    /\ raf = {}
    /\ animationId = 0
    /\ threw = FALSE
    /\ lastStep = Step("init", FALSE, NoCanvas)
    /\ events = 0
    /\ pointer = NoPointer
    /\ view = NoView
    /\ frame = NoFrame
    /\ legend = NoLegend

NextView == Submit \/ Respond \/ Dismiss \/ Frame

ViewSpec == InitView /\ [][NextView]_vars

(***************************************************************************)
(* AnalysisView on the Tambo thread: the initialisation effect that sends  *)
(* the context message, handleSendMessage, the generation timeout          *)
(***************************************************************************)
MaxThreadEvents == 4      \* external events of one behaviour

\* what a send may be rejected with: an Error with a message, or another value
Rejections == {[isError |-> TRUE, message |-> "Network error"],
               [isError |-> FALSE, message |-> NULL]}

\* what the user may have typed
UserInputs == {<<>>, <<" ">>, <<"\t", " ">>, <<"q">>, <<" ", "q">>}

\* the component after mount, before the backend data is there; retries is the
\* default of attemptsLeft (1; the version on chat.send has no retry: 0)
NewThreadView(retries) ==
  [retries |-> retries, mountedView |-> TRUE, backendJson |-> FALSE,
   hasInitialized |-> FALSE, isWaiting |-> FALSE, error |-> NULL,
   generationError |-> NULL, userInput |-> <<>>, messages |-> 0,
   initialSends |-> 0, initialRejected |-> 0, userSends |-> 0, effectRuns |-> 0,
   inflight |-> {}, retry |-> 0 - 1, rejection |-> NULL]

NextSendId(v) == v.initialSends + v.userSends + 1

\* sendInitialMessage(attemptsLeft) up to the await
SendInitialMessage(v, attemptsLeft) ==
  [v EXCEPT !.initialSends = @ + 1,
            !.inflight = @ \cup {[id |-> NextSendId(v), kind |-> "initial",
                                   attemptsLeft |-> attemptsLeft]}]

\* an effect body without the hasInitialized guard
InitEffectUnguarded(v) ==
  IF v.backendJson
  THEN SendInitialMessage([v EXCEPT !.hasInitialized = TRUE, !.isWaiting = TRUE,
                                    !.effectRuns = @ + 1], v.retries)
  ELSE [v EXCEPT !.effectRuns = @ + 1]

\* the body of the initialisation effect
InitEffect(v) ==
  IF ~v.hasInitialized /\ v.backendJson
  THEN SendInitialMessage([v EXCEPT !.hasInitialized = TRUE, !.isWaiting = TRUE,
                                    !.effectRuns = @ + 1], v.retries)
  ELSE [v EXCEPT !.effectRuns = @ + 1]

\* !userInput.trim()
Blank(input) == Len(Trim(input)) = 0

\* handleSendMessage up to the await
HandleSendMessage(v) ==
  IF Blank(v.userInput) THEN v
  ELSE [v EXCEPT !.isWaiting = TRUE, !.error = NULL, !.messages = @ + 1,
                 !.userInput = <<>>, !.userSends = @ + 1,
                 !.inflight = @ \cup {[id |-> NextSendId(v), kind |-> "user",
                                        attemptsLeft |-> 0]}]

\* error instanceof Error ? error.message : 'Failed to process query'
ErrorMessage(r) == IF r.isError THEN r.message ELSE "Failed to process query"

\* a handleSendMessage whose rejected send skips the finally block
SendRejectedNoFinally(v, m, r) ==
  IF m.kind = "user"
  THEN [v EXCEPT !.inflight = @ \ {m}, !.error = ErrorMessage(r), !.rejection = r]
  ELSE IF m.attemptsLeft > 0
       THEN [v EXCEPT !.inflight = @ \ {m}, !.initialRejected = @ + 1,
                      !.retry = m.attemptsLeft - 1, !.rejection = r]
       ELSE [v EXCEPT !.inflight = @ \ {m}, !.initialRejected = @ + 1,
                      !.error = "Failed to start analysis", !.isWaiting = FALSE,
                      !.rejection = r]

\* the send m is rejected with r: catch and finally of handleSendMessage, or
\* the catch of sendInitialMessage
SendRejected(v, m, r) ==
  IF m.kind = "user"
  THEN [v EXCEPT !.inflight = @ \ {m}, !.error = ErrorMessage(r), !.isWaiting = FALSE,
                 !.rejection = r]
  ELSE IF m.attemptsLeft > 0
       THEN [v EXCEPT !.inflight = @ \ {m}, !.initialRejected = @ + 1,
                      !.retry = m.attemptsLeft - 1, !.rejection = r]
       ELSE [v EXCEPT !.inflight = @ \ {m}, !.initialRejected = @ + 1,
                      !.error = "Failed to start analysis", !.isWaiting = FALSE,
                      !.rejection = r]

\* the send m resolves: setIsWaiting(false) after the await / in finally
SendResolved(v, m) == [v EXCEPT !.inflight = @ \ {m}, !.isWaiting = FALSE]

\* a step of AnalysisView: nothing of the graph below it changes
ThreadStep(op, v) ==
  /\ view' = v
  /\ lastStep' = Step(op, FALSE, NoCanvas)
  /\ UNCHANGED <<nodesGiven, nodes, edges, metrics, display, mounted, canvas, container,
                 positions, velocities, hoveredNodeId, tooltip, raf, animationId, threw,
                 pointer, frame, legend>>

\* state.backendJson is set: the effect runs with the data
BackendArrives ==
  /\ view.mountedView /\ ~view.backendJson /\ events < MaxThreadEvents
  /\ ThreadStep("backend", InitEffect([view EXCEPT !.backendJson = TRUE]))
  /\ events' = events + 1

\* a dependency of the effect changes (query, repoUrl, the identity of the
\* send function), or StrictMode runs the effect again: the body runs again
DepsChange ==
  /\ view.mountedView /\ events < MaxThreadEvents
  /\ ThreadStep("deps", InitEffect(view))
  /\ events' = events + 1

\* onChange of the textarea
TypeInput ==
  /\ view.mountedView /\ events < MaxThreadEvents
  /\ \E input \in UserInputs \ {view.userInput} :
       ThreadStep("type", [view EXCEPT !.userInput = input])
  /\ events' = events + 1

\* onSubmit of the form
SubmitMessage ==
  /\ view.mountedView /\ events < MaxThreadEvents
  /\ ThreadStep(IF Blank(view.userInput) THEN "blankSubmit" ELSE "submit",
                HandleSendMessage(view))
  /\ events' = events + 1

SendResolves ==
  /\ \E m \in view.inflight :
       ThreadStep(IF m.kind = "user" THEN "userResolved" ELSE "initialResolved",
                  SendResolved(view, m))
  /\ UNCHANGED events

SendRejects ==
  /\ \E m \in view.inflight, r \in Rejections :
       ThreadStep(IF m.kind = "user" THEN "userRejected" ELSE "initialRejected",
                  SendRejected(view, m, r))
  /\ UNCHANGED events

\* setTimeout(() => sendInitialMessage(attemptsLeft - 1), 2000) fires
RetryFires ==
  /\ view.retry >= 0
  /\ ThreadStep("retry", SendInitialMessage([view EXCEPT !.retry = 0 - 1], view.retry))
  /\ UNCHANGED events

\* the 45 s timer of the timeout effect fires
GenerationTimeout ==
  /\ view.mountedView /\ view.isWaiting
  /\ ThreadStep("timeout", [view EXCEPT !.isWaiting = FALSE,
                                        !.generationError = "Visualization generation timed out"])
  /\ UNCHANGED events

\* AnalysisView unmounts: no effect cancels the sends or the retry timer
UnmountView ==
  /\ view.mountedView /\ events < MaxThreadEvents
  /\ ThreadStep("unmountView", [view EXCEPT !.mountedView = FALSE])
  /\ events' = events + 1

InitThread ==
  \E size \in ContainerSizes, retries \in {0, 1} :
    /\ nodesGiven = FALSE
    /\ nodes = <<>>
    /\ edges = <<>>
    /\ metrics = NullMetrics
    /\ display = "unrendered"
    /\ mounted = FALSE
    /\ canvas = NoCanvas
    /\ container = size
    /\ positions = EmptyMap
    /\ velocities = EmptyMap
    /\ hoveredNodeId = NULL
    /\ tooltip = NoTooltip
    /\ raf = {}
    /\ animationId = 0
    /\ threw = FALSE
    /\ lastStep = Step("init", FALSE, NoCanvas)
    /\ events = 0
    /\ pointer = NoPointer
    /\ view = NewThreadView(retries)
    /\ frame = NoFrame
    /\ legend = NoLegend

NextThread ==
  \/ BackendArrives \/ DepsChange \/ TypeInput \/ SubmitMessage \/ SendResolves
  \/ SendRejects \/ RetryFires \/ GenerationTimeout \/ UnmountView

ThreadSpec == InitThread /\ [][NextThread]_vars

\* every send settles and every timer that is set fires
FairThreadSpec ==
  InitThread /\ [][NextThread]_vars /\ WF_vars(SendResolves \/ SendRejects)
    /\ WF_vars(RetryFires)

(***************************************************************************)
(* The legend alone: one colour lookup for every language string           *)
(***************************************************************************)
MaxPad == 1               \* most white space on either side of a language

\* String.prototype.toUpperCase
ToUpperCase(s) ==
  [i \in 1..Len(s) |->
     IF \E n \in 1..Len(LowerCase) : LowerCase[n] = s[i]
     THEN UpperCase[CHOOSE n \in 1..Len(LowerCase) : LowerCase[n] = s[i]]
     ELSE s[i]]

\* the spellings of a word: as it is, in capitals, with a capital initial
Spellings(w) ==
  {w, ToUpperCase(w)} \cup
  (IF Len(w) = 0 THEN {} ELSE {ToUpperCase(SubSeq(w, 1, 1)) \o SubSeq(w, 2, Len(w))})

Pads == UNION {[1..n -> {" ", "\t"}] : n \in 0..MaxPad}

\* the languages a node may carry: the keys of the table, names that are no
\* key (the inherited property names among them), in every spelling and with
\* white space around or inside
Languages ==
  LET words == {LANGUAGE_COLORS[i].key : i \in 1..Len(LANGUAGE_COLORS)}
                 \cup {ObjectPrototype[i].key : i \in 1..Len(ObjectPrototype)}
                 \cup {<<>>, <<"z", "i", "g">>, <<"c", " ", "c">>, <<"g", "o", "+">>}
  IN {l \o w \o r : l \in Pads, r \in Pads,
                     w \in UNION {Spellings(word) : word \in words}}

\* the component is about to render the legend item of a language
InitColor ==
  \E language \in Languages :
    /\ nodesGiven = FALSE
    /\ nodes = <<>>
    /\ edges = <<>>
    /\ metrics = NullMetrics
    /\ display = "unrendered"
    /\ mounted = FALSE
    /\ canvas = NoCanvas
    /\ container = [width |-> 0, height |-> 0]
    /\ positions = EmptyMap
    /\ velocities = EmptyMap
    /\ hoveredNodeId = NULL
    /\ tooltip = NoTooltip
    /\ raf = {}
    /\ animationId = 0
    /\ threw = FALSE
    /\ lastStep = Step("init", FALSE, NoCanvas)
    /\ events = 0
    /\ pointer = NoPointer
    /\ view = NoView
    /\ frame = NoFrame
    /\ legend = [language |-> language, color |-> NULL]

\* style={{ backgroundColor: getLanguageColor(language) }}
LookupColor ==
  /\ legend.color = NULL
  /\ legend' = [legend EXCEPT !.color = getLanguageColor(legend.language)]
  /\ lastStep' = Step("color", FALSE, NoCanvas)
  /\ UNCHANGED <<nodesGiven, nodes, edges, metrics, display, mounted, canvas, container,
                 positions, velocities, hoveredNodeId, tooltip, raf, animationId, threw,
                 events, pointer, view, frame>>

ColorSpec == InitColor /\ [][LookupColor]_vars

(***************************************************************************)
(* The metrics alone: one render of the component for every input graph    *)
(***************************************************************************)
EdgeEnds(ids) == {MkEdge(a, b) : a \in ids, b \in ids}

\* the state before the first render of the component with the given props
MetricsStart(given, ids, es) ==
  /\ nodesGiven = given
  /\ nodes = MkNodes(ids)
  /\ edges = es
  /\ metrics = NullMetrics
  /\ display = "unrendered"
  /\ mounted = FALSE
  /\ canvas = NoCanvas
  /\ container = [width |-> 0, height |-> 0]
  /\ positions = EmptyMap
  /\ velocities = EmptyMap
  /\ hoveredNodeId = NULL
  /\ tooltip = NoTooltip
  /\ raf = {}
  /\ animationId = 0
  /\ threw = FALSE
  /\ lastStep = Step("init", FALSE, NoCanvas)
  /\ events = 0
  /\ pointer = NoPointer
  /\ view = NoView
  /\ frame = NoFrame
  /\ legend = NoLegend

\* props.nodes undefined
MissingInput == MetricsStart(FALSE, <<>>, <<>>)

\* every node list over Ids (ids may repeat) with every edge list over Ids and an unknown id
SmallInputs ==
  \E n \in 0..MaxNodes, m \in 0..MaxEdges :
    \E ids \in [1..n -> Ids], es \in [1..m -> EdgeEnds(Ids \cup {UnknownId})] :
      MetricsStart(TRUE, ids, es)

\* lists of distinct ids, longer than the ranking, with every edge list over them
RankInputs ==
  \E n \in 1..Len(RankIds), m \in 0..MaxRankEdges :
    \E es \in [1..m -> EdgeEnds({RankIds[i] : i \in 1..n})] :
      MetricsStart(TRUE, SubSeq(RankIds, 1, n), es)

InitMetrics == MissingInput \/ SmallInputs \/ RankInputs

\* the component function runs: the metrics memo and the returned element
Render ==
  /\ display = "unrendered"
  /\ metrics' = ComputeMetrics(nodesGiven, nodes, edges)
  /\ display' = Displayed(nodesGiven, nodes)
  /\ nodes' = NodesAfterMetrics(nodesGiven, nodes, edges)
  /\ lastStep' = Step("render", FALSE, NoCanvas)
  /\ UNCHANGED <<nodesGiven, edges, mounted, canvas, container, positions,
                 velocities, hoveredNodeId, tooltip, raf, animationId, threw, events,
                 pointer, view, frame, legend>>

MetricsSpec == InitMetrics /\ [][Render]_vars

(***************************************************************************)
(* Properties                                                              *)
(***************************************************************************)
Empty == (~nodesGiven) \/ Len(nodes) = 0
SnapshotIds == {nodes[i].id : i \in 1..Len(nodes)}
Settled == \E cb \in CurrentLoop : cb.ticks = MAX_TICKS
PointerOrResize == {"move", "leave", "resize"}

\* C1: once the tick counter of a mount has reached the cap, no pointer move,
\* hover change, pointer leave or resize resets it or changes a position or a
\* velocity.
C1_SettledIsFinal ==
  [][(mounted /\ Settled /\ lastStep'.op \in PointerOrResize)
       => (Settled' /\ positions' = positions /\ velocities' = velocities)]_vars

Lo == Padding * SCALE
Hi(dimension) == (dimension - Padding) * SCALE

\* C2 as stated: after every physics tick every node of the graph lies in
\* [padding, width - padding] x [padding, height - padding], whatever the size
\* of the canvas the tick read.
C2_InBoundsAnyCanvas ==
  lastStep.ticked =>
    \A id \in SnapshotIds :
      /\ Lo <= positions[id].x /\ positions[id].x <= Hi(lastStep.width)
      /\ Lo <= positions[id].y /\ positions[id].y <= Hi(lastStep.height)

InAxis(v, dimension) ==
  IF dimension >= 2 * Padding THEN Lo <= v /\ v <= Hi(dimension) ELSE v = Lo

\* C2 amended: after every physics tick every node of the graph lies in
\* [padding, dimension - padding] on each axis whose dimension is at least
\* 2 * padding, and exactly at padding on an axis that is narrower.
C2_InBounds ==
  lastStep.ticked =>
    \A id \in SnapshotIds :
      /\ InAxis(positions[id].x, lastStep.width)
      /\ InAxis(positions[id].y, lastStep.height)

C2_Witness ==
  /\ lastStep.ticked /\ lastStep.op = "tick"
  /\ lastStep.width < 2 * Padding
  /\ Cardinality(SnapshotIds) = 2

\* C3: at most one simulate callback is scheduled, it belongs to the effect of
\* the current graph, and none is scheduled once the component is unmounted.
C3_OneLoop ==
  /\ Cardinality(raf) <= 1
  /\ \A cb \in raf : cb.handle = animationId /\ cb.nodes = nodes /\ cb.edges = edges
  /\ (~mounted) => raf = {}

C3_Witness ==
  /\ lastStep.op = "props" /\ Cardinality(raf) = 1
  /\ \E id \in DOMAIN positions : id \notin SnapshotIds

ValidEdges == {i \in 1..Len(edges) : edges[i].source \in SnapshotIds /\ edges[i].target \in SnapshotIds}

\* C4: the reported edgeCount counts only the edges whose two endpoints are ids
\* of the node list.
C4_DanglingEdgesDropped ==
  display = "graph" => metrics.edgeCount = Cardinality(ValidEdges)

\* C5: records with the same id count once: nodeCount is the number of distinct
\* ids and the ranking lists no id twice.
C5_DuplicatesCollapsed ==
  display = "graph" =>
    /\ metrics.nodeCount = Cardinality(SnapshotIds)
    /\ \A j, k \in 1..Len(metrics.mostConnected) :
         metrics.mostConnected[j].id = metrics.mostConnected[k].id => j = k

RECURSIVE SumOverNodes(_, _)
SumOverNodes(deg, i) ==
  IF i > Len(nodes) THEN 0 ELSE MapGet(deg, nodes[i].id, 0) + SumOverNodes(deg, i + 1)

\* C6: the in-degrees of the nodes and the out-degrees of the nodes both sum to
\* the reported edgeCount.
C6_DegreeSums ==
  display = "graph" =>
    /\ SumOverNodes(DegreeMaps(nodes, edges).in, 1) = metrics.edgeCount
    /\ SumOverNodes(DegreeMaps(nodes, edges).out, 1) = metrics.edgeCount

Linked(a, b) ==
  \E i \in 1..Len(edges) :
    \/ edges[i].source = a /\ edges[i].target = b
    \/ edges[i].source = b /\ edges[i].target = a

RECURSIVE Reachable(_)
Reachable(S) ==
  IF \A a \in S : \A b \in SnapshotIds : Linked(a, b) => b \in S
  THEN S
  ELSE Reachable(S \cup {b \in SnapshotIds : \E a \in S : Linked(a, b)})

WeakComponents == {Reachable({id}) : id \in SnapshotIds}
DistinctIds == Cardinality(SnapshotIds) = Len(nodes)
EndpointsKnown == Cardinality(ValidEdges) = Len(edges)

\* C7: for distinct ids and edges between nodes of the list, connectedComponents
\* is the number of weakly connected components: 1 when the graph is connected,
\* nodeCount when there is no edge.
C7_ComponentCount ==
  (display = "graph" /\ DistinctIds /\ EndpointsKnown) =>
    /\ metrics.connectedComponents = Cardinality(WeakComponents)
    /\ (\A a, b \in SnapshotIds : b \in Reachable({a})) => metrics.connectedComponents = 1
    /\ Len(edges) = 0 => metrics.connectedComponents = Len(nodes)

C7_Witness ==
  /\ display = "graph" /\ DistinctIds /\ EndpointsKnown
  /\ Len(nodes) = 4 /\ Len(edges) = 2
  /\ metrics.connectedComponents = 3
  /\ \E i \in 1..Len(edges) : edges[i].source = edges[i].target
  /\ \E i \in 1..Len(edges) : edges[i].target = nodes[1].id /\ edges[i].source = nodes[3].id

InDegreeOf(id) == Cardinality({i \in 1..Len(edges) : edges[i].target = id})
OutDegreeOf(id) == Cardinality({i \in 1..Len(edges) : edges[i].source = id})
DegreeOf(id) == InDegreeOf(id) + OutDegreeOf(id)
Ranked == {metrics.mostConnected[k].label : k \in 1..Len(metrics.mostConnected)}

\* C8: the ranking holds min(5, nodeCount) entries, each a node of the list with
\* its degree, in non-increasing order of degree, entries of equal degree in
\* input order, and no node left out has a greater degree than one included.
C8_Ranking ==
  display = "graph" =>
    LET mc == metrics.mostConnected
    IN /\ Len(mc) = (IF Len(nodes) < 5 THEN Len(nodes) ELSE 5)
       /\ \A k \in 1..Len(mc) :
            /\ mc[k].label \in 1..Len(nodes)
            /\ mc[k].id = nodes[mc[k].label].id
            /\ mc[k].in = InDegreeOf(mc[k].id)
            /\ mc[k].out = OutDegreeOf(mc[k].id)
            /\ mc[k].degree = DegreeOf(mc[k].id)
       /\ \A j, k \in 1..Len(mc) :
            j < k => \/ mc[j].degree > mc[k].degree
                     \/ mc[j].degree = mc[k].degree /\ mc[j].label < mc[k].label
       /\ \A i \in 1..Len(nodes) :
            i \notin Ranked => \A k \in 1..Len(mc) : DegreeOf(nodes[i].id) <= mc[k].degree

C8_Witness ==
  /\ display = "graph" /\ Len(nodes) = 6
  /\ metrics.mostConnected[1].label = 6
  /\ metrics.mostConnected[2].degree = metrics.mostConnected[3].degree
  /\ metrics.mostConnected[5].degree = 0

Pairs == metrics.nodeCount * (metrics.nodeCount - 1)

\* C9 as stated: the reported density is exactly edgeCount / (n * (n - 1)).
C9_DensityExact ==
  display = "graph" =>
    IF metrics.nodeCount <= 1 THEN metrics.density = 0
    ELSE metrics.density * Pairs = 1000 * Len(edges)

\* C9 amended: the reported density is 0 when nodeCount <= 1 and otherwise
\* edgeCount / (n * (n - 1)) rounded to three decimals (within 0.0005 of it),
\* every edge of the list counted.
C9_DensityRounded ==
  display = "graph" =>
    IF metrics.nodeCount <= 1 THEN metrics.density = 0
    ELSE 2 * Abs(metrics.density * Pairs - 1000 * Len(edges)) <= Pairs

C9_Witness ==
  /\ display = "graph" /\ metrics.nodeCount = 3 /\ Len(edges) = 2
  /\ metrics.density = 333

\* C10: with an empty or missing node list the metrics are null, the "no data"
\* element is shown, no frame is scheduled, nothing is thrown and no position
\* entry is created.
C10_EmptyInput ==
  /\ [](mounted /\ Empty =>
          /\ metrics.isNull /\ display = "empty"
          /\ raf = {} /\ animationId = 0 /\ ~threw /\ ~lastStep.ticked
          /\ lastStep.op = "mount" => DOMAIN positions = {})
  /\ [][Empty' => positions' = positions /\ velocities' = velocities]_vars

C10_Witness ==
  /\ mounted /\ Empty /\ lastStep.op = "props"
  /\ DOMAIN positions # {} /\ metrics.isNull /\ raf = {}

(***************************************************************************)
(* The hit test and the hover state                                        *)
(***************************************************************************)
DistSq(p, q) == (q.x - p.x) * (q.x - p.x) + (q.y - p.y) * (q.y - p.y)
RadiusSq == 100 * SCALE * SCALE

\* the indices of the nodes within the pick radius of the pointer of the
\* mousemove event being handled, measured on the positions the handler reads
Near == {i \in 1..Len(nodes) : DistSq(positions[nodes[i].id], pointer') <= RadiusSq}
FirstNear == CHOOSE i \in Near : \A j \in Near : i <= j
Moved == lastStep'.op = "move"

\* C11: when several nodes lie within the pick radius of the pointer, the
\* hovered id becomes the id of the first of them in input order.
C11_FirstHit ==
  [][(Moved /\ Near # {}) => hoveredNodeId' = nodes[FirstNear].id]_vars

\* C12 as stated: a pointer exactly at the position of a node n makes the
\* hovered id n.id.
C12_AtNodeHitsThatNode ==
  [][\A i \in 1..Len(nodes) :
       (Moved /\ pointer' = positions[nodes[i].id]) => hoveredNodeId' = nodes[i].id]_vars

\* C12 amended: a pointer exactly at the position of a node n hovers a node
\* within the pick radius, and that node is n unless a node with another id
\* lies within the pick radius too.
C12_AtNodeHits ==
  [][\A i \in 1..Len(nodes) :
       (Moved /\ pointer' = positions[nodes[i].id]) =>
          /\ hoveredNodeId' \in {nodes[j].id : j \in Near}
          /\ (\A j \in Near : nodes[j].id = nodes[i].id) => hoveredNodeId' = nodes[i].id]_vars

C12_Witness ==
  /\ lastStep.op = "move" /\ hoveredNodeId # NULL
  /\ Len(nodes) = 2 /\ DistinctIds
  /\ pointer = positions[hoveredNodeId]
  /\ \E id \in SnapshotIds : positions[id] # pointer

\* C13: a mousemove hovers a node exactly when some node of the snapshot is at
\* squared distance <= 100 from the pointer, the hovered node is within that
\* radius, and otherwise the hovered id and the tooltip are both cleared.
C13_HitIffNear ==
  [][Moved =>
       /\ (hoveredNodeId' # NULL) <=> (Near # {})
       /\ (hoveredNodeId' # NULL) => hoveredNodeId' \in {nodes[j].id : j \in Near}
       /\ (Near = {}) => (hoveredNodeId' = NULL /\ tooltip' = NoTooltip)]_vars

C13_Witness ==
  /\ lastStep.op = "move" /\ hoveredNodeId = NULL /\ tooltip = NoTooltip
  /\ events = 2 /\ ~lastStep.ticked
  /\ \E id \in SnapshotIds :
       /\ pointer.x = positions[id].x + 10 * SCALE + 1
       /\ pointer.y = positions[id].y

\* C14: the tooltip exists exactly when a node is hovered, and it is then the
\* tooltip of the hovered node.
C14_TooltipIffHovered ==
  /\ tooltip.shown <=> hoveredNodeId # NULL
  /\ tooltip.shown => tooltip.node.id = hoveredNodeId

C14_Witness ==
  /\ lastStep.op = "leave" /\ lastStep.ticked /\ events = 2
  /\ hoveredNodeId = NULL /\ ~tooltip.shown

(***************************************************************************)
(* Snapshot replacement, canvas size, the tick cap                         *)
(***************************************************************************)
OldIds == DOMAIN positions
NewSnapshotIds == {nodes'[i].id : i \in 1..Len(nodes')}
Replaced == lastStep'.op = "props"

\* C15 as stated: a new snapshot creates entries only for ids without one,
\* deletes none, and every id that has an entry keeps exactly its position and
\* its velocity.
C15_EntriesKeptExactly ==
  [][Replaced =>
       /\ OldIds \subseteq DOMAIN positions'
       /\ (DOMAIN positions' \ OldIds) \subseteq NewSnapshotIds
       /\ \A id \in OldIds :
            positions'[id] = positions[id] /\ velocities'[id] = velocities[id]]_vars

RandomPlaces(cv) == {RandomPosition(<<i, j>>, cv) : i, j \in 0..(RandomDen - 1)}
Seeded(seed) ==
  [id \in DOMAIN positions' |-> IF id \in OldIds THEN positions[id] ELSE seed[id]]
SeededVelocities ==
  [id \in DOMAIN positions' |->
     IF id \in OldIds THEN velocities[id] ELSE [vx |-> 0, vy |-> 0]]

\* C15 amended: a new snapshot creates entries (random position, zero
\* velocity) only for ids without one and deletes none; an id outside the new
\* snapshot keeps exactly its position and velocity, and an id of the new
\* snapshot that has an entry enters the first tick of the new loop, which the
\* same effect runs, with exactly the position and velocity it had.
C15_EntriesNotReset ==
  [][Replaced =>
       /\ OldIds \subseteq DOMAIN positions'
       /\ DOMAIN velocities' = DOMAIN positions'
       /\ (DOMAIN positions' \ OldIds) \subseteq NewSnapshotIds
       /\ \A id \in OldIds \ NewSnapshotIds :
            positions'[id] = positions[id] /\ velocities'[id] = velocities[id]
       /\ \E seed \in [DOMAIN positions' \ OldIds -> RandomPlaces(canvas')] :
            IF lastStep'.ticked
            THEN TickNodes(nodes', 1, edges', canvas', Seeded(seed), SeededVelocities)
                   = [pos |-> positions', vel |-> velocities']
            ELSE Seeded(seed) = positions' /\ SeededVelocities = velocities']_vars

C15_Witness ==
  /\ lastStep.op = "props" /\ lastStep.ticked
  /\ SnapshotIds = {"b", "c"} /\ DOMAIN positions = {"a", "b", "c"}
  /\ velocities["c"] # velocities["b"]

\* C18: whenever the graph canvas is displayed, its width and height are the
\* client width and height of its container.
C18_CanvasMatchesContainer ==
  (mounted /\ display = "graph" /\ canvas.present) =>
     (canvas.width = container.width /\ canvas.height = container.height)

FrameRan == lastStep'.op \in {"tick", "draw"}

\* C20: the tick counter of a loop never exceeds the cap; a frame below the cap
\* applies physics and counts it, a frame at the cap changes no position and no
\* velocity and schedules the next redraw; with frames run fairly every loop
\* ends up settled for good.
C20_TickCap ==
  /\ [](\A cb \in raf : cb.ticks \in 1..MAX_TICKS)
  /\ [][FrameRan =>
          \A cb \in raf :
            /\ raf' # {}
            /\ cb.ticks < MAX_TICKS =>
                 (lastStep'.ticked /\ \A c \in raf' : c.ticks = cb.ticks + 1)
            /\ cb.ticks >= MAX_TICKS =>
                 /\ ~lastStep'.ticked
                 /\ positions' = positions /\ velocities' = velocities
                 /\ \A c \in raf' : c.ticks = cb.ticks]_vars
  /\ [](raf # {} => <>(Settled \/ ~mounted))
  /\ <>[](raf # {} => Settled)

C20_Witness ==
  /\ mounted /\ lastStep.op = "draw" /\ Settled /\ Len(nodes) = 2

(***************************************************************************)
(* Validation and errors at the boundary                                   *)
(***************************************************************************)
\* C16: props that fail schema validation never become the current component
\* and are never rendered by a visualization component.
C16_InvalidPropsRejected ==
  /\ view.component.type # NULL => SchemaParse(view.component.props)
  /\ display = "graph" => (nodesGiven /\ view.component.props.edgesGiven
                            /\ ~view.component.props.extra)

\* C17: an exception raised by a visualization is caught by AnalysisLayout,
\* which shows its inline error message; it never leaves the container.
C17_ExceptionCaught ==
  threw => (view.layout = "error" /\ ~view.crashed)

ForceReads(cb, pos) ==
  {EdgeOther(cb.edges[k], cb.nodes[i].id, pos) :
     k \in 1..Len(cb.edges), i \in 1..Len(cb.nodes)} \ {NULL}

\* C21: once a node id is absent from the current snapshot's node list, its
\* stored position is never read again: the last frame read the positions of
\* ids of the snapshot only, and so does the force computation of every
\* scheduled loop, whatever edges the snapshot contains.
C21_StaleNeverRead ==
  /\ (mounted /\ frame.drawn) => (frame.read \subseteq SnapshotIds)
  /\ \A cb \in CurrentLoop : ForceReads(cb, positions) \subseteq NodeIds(cb.nodes)

\* an edge joins a and b, in either direction
Joined(a, b) ==
  \E k \in 1..Len(edges) : \/ (edges[k].source = a /\ edges[k].target = b)
                           \/ (edges[k].source = b /\ edges[k].target = a)

Highlighted == "#333333"
Dimmed == "#e0e0e0"

\* C22: in a frame drawn while node h is hovered, a node is dimmed iff its id
\* differs from h and no edge joins it and h in either direction, and a drawn
\* edge is highlighted iff h is one of its endpoints and dimmed otherwise; in a
\* frame drawn while nothing is hovered no node and no edge is dimmed.
C22_Dimming ==
  (mounted /\ frame.drawn) =>
     /\ DOMAIN frame.nodes = 1..Len(nodes)
     /\ (frame.hov # NULL) =>
          /\ \A i \in 1..Len(nodes) :
               frame.nodes[i].isDimmed <=>
                  (nodes[i].id # frame.hov /\ ~Joined(nodes[i].id, frame.hov))
          /\ \A k \in DOMAIN frame.edges :
               /\ (frame.edges[k] = Highlighted) <=>
                     (frame.hov \in {edges[k].source, edges[k].target})
               /\ (frame.edges[k] # Highlighted) => (frame.edges[k] = Dimmed)
     /\ (frame.hov = NULL) =>
          /\ \A i \in 1..Len(nodes) : ~frame.nodes[i].isDimmed
          /\ \A k \in DOMAIN frame.edges : frame.edges[k] # Dimmed

\* a resize step touches the canvas size (and the wrapper it is read from) only
OnlyCanvasResized ==
  /\ canvas'.present = canvas.present
  /\ canvas'.present => (canvas'.width = container'.width /\ canvas'.height = container'.height)
  /\ UNCHANGED <<nodesGiven, nodes, edges, metrics, display, mounted, positions, velocities,
                 hoveredNodeId, tooltip, raf, animationId, threw, frame>>

\* C23 as stated: a resize changes only the canvas size; while Running the next
\* tick puts every node into [padding, dimension - padding] of the new size on
\* both axes; once Settled a frame leaves the positions as they were.
C23_ResizeAnySize ==
  [][/\ (lastStep'.op = "resize") => OnlyCanvasResized
     /\ (lastStep'.op = "tick") =>
           \A id \in SnapshotIds :
              /\ Lo <= positions'[id].x /\ positions'[id].x <= Hi(canvas.width)
              /\ Lo <= positions'[id].y /\ positions'[id].y <= Hi(canvas.height)
     /\ (Settled /\ FrameRan) => (positions' = positions /\ velocities' = velocities)]_vars

\* C23 amended: a resize changes only the canvas size; while Running the next
\* tick clamps every node into [padding, dimension - padding] of the new size
\* on an axis of at least 2 * padding and to padding on a narrower axis; once
\* Settled a frame leaves the positions as they were, inside the new bounds or
\* not.
C23_Resize ==
  [][/\ (lastStep'.op = "resize") => OnlyCanvasResized
     /\ (lastStep'.op = "tick") =>
           \A id \in SnapshotIds : /\ InAxis(positions'[id].x, canvas.width)
                                   /\ InAxis(positions'[id].y, canvas.height)
     /\ (Settled /\ FrameRan) => (positions' = positions /\ velocities' = velocities)]_vars

\* a settled graph drawn after a resize left a node outside the new bounds
C23_Witness ==
  /\ mounted /\ events = 1 /\ lastStep.op = "draw"
  /\ canvas.width = 100
  /\ \E id \in SnapshotIds : positions[id].x > Hi(canvas.width)

\* C24: every frame is drawn with the hover state produced by the last pointer
\* event handled before it: a frame that runs draws with the hovered id the
\* component holds, never with an older one.
C24_FrameHoverCurrent ==
  [][FrameRan => (frame'.drawn /\ frame'.hov = hoveredNodeId)]_vars

\* C25: the node list and the edge list the component holds are, in order and
\* content, a snapshot as the parent passed it, and no step other than the
\* arrival of a new snapshot (metrics, ticks, drawing, hit tests, resize,
\* unmount) changes them: the ranking sorts a copy.
C25_InputsUntouched ==
  /\ [](\E snap \in Snapshots : /\ nodesGiven = snap.given
                                 /\ nodes = MkNodes(snap.ids)
                                 /\ edges = snap.edges)
  /\ [][(lastStep'.op # "props") =>
           (nodesGiven' = nodesGiven /\ nodes' = nodes /\ edges' = edges)]_vars

\* a snapshot whose rank order differs from its input order has been ranked
\* and then ticked, drawn and hit-tested
C25_Witness ==
  /\ display = "graph" /\ Len(nodes) = 2 /\ ~metrics.isNull
  /\ metrics.mostConnected[1].id = nodes[2].id
  /\ metrics.mostConnected[1].degree > metrics.mostConnected[2].degree
  /\ lastStep.op = "move" /\ frame.drawn /\ hoveredNodeId # NULL

DefaultColor == "#9a9a9a"

\* the language without the white space around it, in lower case
Canonical(s) ==
  LET inner == {i \in 1..Len(s) : s[i] \notin WhiteSpace}
      first == CHOOSE i \in inner : \A j \in inner : i <= j
      last == CHOOSE i \in inner : \A j \in inner : j <= i
  IN IF inner = {} THEN <<>>
     ELSE [n \in 1..(last - first + 1) |->
             LET c == s[first + n - 1]
             IN IF \E u \in 1..Len(UpperCase) : UpperCase[u] = c
                THEN LowerCase[CHOOSE u \in 1..Len(UpperCase) : UpperCase[u] = c] ELSE c]

\* C26: getLanguageColor ignores case and surrounding white space: a language
\* whose trimmed lower-case form is a key of the colour table gets that key's
\* colour, and every other string gets the default colour #9a9a9a.
C26_ColorOrDefault ==
  (legend.color # NULL) =>
     IF \E i \in 1..Len(LANGUAGE_COLORS) : LANGUAGE_COLORS[i].key = Canonical(legend.language)
     THEN \E i \in 1..Len(LANGUAGE_COLORS) :
             /\ LANGUAGE_COLORS[i].key = Canonical(legend.language)
             /\ legend.color = LANGUAGE_COLORS[i].color
     ELSE legend.color = DefaultColor

\* C27: at every moment the hovered id is null or the id of a node of the
\* current snapshot, and the node of a shown tooltip is a record of the current
\* snapshot, also right after the node list was replaced during a hover.
C27_HoverInSnapshot ==
  mounted =>
    /\ (hoveredNodeId = NULL \/ hoveredNodeId \in SnapshotIds)
    /\ tooltip.shown => (\E i \in 1..Len(nodes) : nodes[i] = tooltip.node)

\* C28: the position table and the velocity table have the same keys, every
\* scheduled loop finds an entry in both for each node of its snapshot, and no
\* positions.get(id)! / velocities.get(id)! of a tick or a draw step has
\* raised.
C28_TablesAgree ==
  /\ DOMAIN positions = DOMAIN velocities
  /\ \A cb \in raf : /\ NodeIds(cb.nodes) \subseteq DOMAIN positions
                     /\ NodeIds(cb.nodes) \subseteq DOMAIN velocities
  /\ ~threw

\* a loop has ticked after its snapshot replaced one with other ids
C28_Witness ==
  /\ lastStep.op = "tick" /\ events >= 1
  /\ SnapshotIds # DOMAIN positions /\ SnapshotIds \subseteq DOMAIN positions
  /\ raf # {}

InitialInFlight == {m \in view.inflight : m.kind = "initial"}
UserInFlight == {m \in view.inflight : m.kind = "user"}

\* C29: in one mount the initial context message is sent at most twice,
\* however often the initialisation effect runs: the first time when the
\* backend data becomes available, the second time by the retry timer after
\* the first attempt was rejected; the rejection of the last attempt sets the
\* error and leaves no timer and no attempt behind.
C29_InitialSentAtMostTwice ==
  /\ [](/\ view.initialSends <= 2
        /\ view.initialSends <= 1 + view.initialRejected
        /\ (view.initialSends >= 1) => (view.backendJson /\ view.hasInitialized))
  /\ [][(view'.initialSends # view.initialSends) =>
           \/ (lastStep'.op = "backend" /\ view.initialSends = 0 /\ view'.initialSends = 1)
           \/ (lastStep'.op = "retry" /\ view.initialSends = 1 /\ view'.initialSends = 2
                 /\ view.initialRejected = 1)]_vars
  /\ [][(lastStep'.op = "initialRejected" /\ view'.initialRejected = view.retries + 1) =>
           (view'.error # NULL /\ view'.retry < 0 /\ ~view'.isWaiting
              /\ view'.initialSends = view.initialSends)]_vars

\* the effect ran again after both attempts had been rejected
C29_Witness ==
  /\ view.initialSends = 2 /\ view.initialRejected = 2
  /\ view.error = "Failed to start analysis"
  /\ view.effectRuns >= 2 /\ lastStep.op = "deps"

\* C30: a handleSendMessage call that has set isWaiting and awaits its send is
\* followed, once the send settles, by isWaiting = false, whether the send
\* resolves or rejects; a rejected send stores its message (the fixed text
\* for a rejection that is no Error) as the error; a submit with blank or
\* white-space-only input leaves isWaiting, the messages and the sends as
\* they are.
C30_WaitingEnds ==
  /\ (UserInFlight # {}) ~> (~view.isWaiting)
  /\ [][(lastStep'.op \in {"userResolved", "userRejected"}) => ~view'.isWaiting]_vars
  /\ [][(lastStep'.op = "userRejected") =>
           view'.error = (IF view'.rejection.isError THEN view'.rejection.message
                          ELSE "Failed to process query")]_vars
  /\ [][(lastStep'.op = "submit") =>
           (view'.isWaiting /\ view'.messages = view.messages + 1
              /\ Cardinality(view'.inflight) = Cardinality(view.inflight) + 1)]_vars
  /\ [][(lastStep'.op = "blankSubmit") =>
           (view'.isWaiting = view.isWaiting /\ view'.messages = view.messages
              /\ view'.inflight = view.inflight /\ view'.userSends = view.userSends)]_vars

\* a send made for a typed question was rejected with an Error
C30_Witness ==
  /\ lastStep.op = "userRejected" /\ ~view.isWaiting
  /\ view.error = "Network error" /\ view.userSends = 1 /\ view.messages = 1

====
